---- MODULE Spec2Model ----
(***************************************************************************)
(* Model of the sales-analytics job (src/src/data_processing/              *)
(* sales_analytics.py): the SalesAnalytics engine, its constructor, the    *)
(* run_analytics pipeline (read -> repartition -> seven grouped reports -> *)
(* save -> summary -> spark.stop) and the report definitions.              *)
(*                                                                         *)
(* The raw CSV holds its amounts as decimal text with two places (they are *)
(* written here in hundredths); read_sales_data infers the schema, so the  *)
(* DataFrame holds them as doubles, and F.sum adds doubles in the order in *)
(* which the rows and the partial sums reach it.  Every column of a row is *)
(* present, so count(col) of a group is the number of its rows.            *)
(***************************************************************************)
EXTENDS Integers, Sequences, FiniteSets, TLC

(***************************************************************************)
(* Bounds of the model                                                     *)
(***************************************************************************)
\* longest exhaustively enumerated input table
MaxRows == 2
\* how far a generated table goes past the top_products row limit
MaxExtra == 2
\* number of pipeline runs (engine instances) in one behaviour
MaxRuns == 2
\* last reading of the wall clock, in sub-second ticks
MaxClock == 2
\* sub-second clock ticks in one second of the timestamp
TicksPerSecond == 2
\* longest table of which every order of arrival of the rows is taken
MaxShuffle == 5
\* runs of one behaviour that a failure of the environment (a failed read,
\* a failed job) ends
MaxFaults == 1

(***************************************************************************)
(* Program constants                                                       *)
(***************************************************************************)
\* df.repartition(8, "Order_Date")
NumPartitions == 8
\* .limit(100) of top_products
TopLimit == 100

\* insertion order of the dict process_sales_metrics returns
ReportNames ==
    << "daily_sales", "category_performance", "regional_analysis",
       "payment_analysis", "top_products", "status_analysis",
       "shipping_analysis" >>

NumReports == Len(ReportNames)

ReportNameSet == { ReportNames[i] : i \in 1..NumReports }

\* the keys of config['data_paths'] the engine reads
ConfigKeys == { "raw", "processed", "curated", "reports" }

(***************************************************************************)
(* Doubles (IEEE 754 binary64): zero and the positive normal numbers.  A   *)
(* double is [exp, hi, lo] with the 53-bit significand hi * 2^25 + lo,     *)
(* 2^27 <= hi < 2^28, lo < 2^25, and the value significand * 2^exp; zero   *)
(* is DZero.  The amounts of the order table are not negative.             *)
(***************************************************************************)
Two11 == 2^11
Two14 == 2^14
Two17 == 2^17
Two25 == 2^25
Two27 == 2^27
Two28 == 2^28

DZero == [ exp |-> -2000, hi |-> 0, lo |-> 0 ]

\* x < y for two doubles
DLess(x, y) ==
    \/ x.exp < y.exp
    \/ x.exp = y.exp /\ x.hi < y.hi
    \/ x.exp = y.exp /\ x.hi = y.hi /\ x.lo < y.lo

\* the double nearest to (A * 2^28 + B + st * eps) * 2^e, ties to the even
\* significand; A >= 2^27, B < 2^28, st = 1 when bits below B were lost
RECURSIVE DRound(_, _, _, _)
DRound(A, B, st, e) ==
    IF A >= Two28
    THEN DRound(A \div 2, (A % 2) * Two27 + B \div 2,
                IF st = 1 \/ B % 2 = 1 THEN 1 ELSE 0, e + 1)
    ELSE LET lo == B \div 8
             below == 2 * (B % 8) + st
             up == below > 8 \/ (below = 8 /\ lo % 2 = 1)
         IN  IF ~up THEN [ exp |-> e + 3, hi |-> A, lo |-> lo ]
             ELSE IF lo + 1 < Two25 THEN [ exp |-> e + 3, hi |-> A, lo |-> lo + 1 ]
             ELSE IF A + 1 < Two28 THEN [ exp |-> e + 3, hi |-> A + 1, lo |-> 0 ]
             ELSE [ exp |-> e + 4, hi |-> Two27, lo |-> 0 ]

\* the 56-bit number A * 2^28 + B shifted right by d bits: the two limbs
\* left and whether a bit was shifted out
DShiftRight(A, B, d) ==
    IF d = 0 THEN << A, B, 0 >>
    ELSE IF d < 28
    THEN << A \div 2^d, (A % 2^d) * 2^(28 - d) + B \div 2^d,
            IF B % 2^d # 0 THEN 1 ELSE 0 >>
    ELSE IF d < 56
    THEN << 0, A \div 2^(d - 28),
            IF A % 2^(d - 28) # 0 \/ B # 0 THEN 1 ELSE 0 >>
    ELSE << 0, 0, 1 >>

\* x + y in double arithmetic (round to nearest, ties to even)
DAdd(x, y) ==
    IF x = DZero THEN y
    ELSE IF y = DZero THEN x
    ELSE LET big == IF DLess(x, y) THEN y ELSE x
             small == IF DLess(x, y) THEN x ELSE y
             s == DShiftRight(small.hi, small.lo * 8, big.exp - small.exp)
             B == big.lo * 8 + s[2]
         IN  DRound(big.hi + s[1] + B \div Two28, B % Two28, s[3], big.exp - 3)

\* the element of a set of one element; in { e : v \in {d} } the value of d
\* is taken once and e reads it as v
The(S) == CHOOSE z \in S : TRUE

\* the double a decimal field with two places is parsed to (inferSchema):
\* the double nearest to c / 100, c the field in hundredths, c < 6553600
ParseDouble(c0) ==
    The({ IF c = 0 THEN DZero
          ELSE The({ LET n == c * 2^t
                         r1 == n % 100
                         r2 == (r1 * Two14) % 100
                         r3 == (r2 * Two14) % 100
                         r4 == (r3 * Two14) % 100
                     IN  DRound((n \div 100) * Two14 + (r1 * Two14) \div 100,
                                ((r2 * Two14) \div 100) * Two14 + (r3 * Two14) \div 100,
                                IF r4 # 0 THEN 1 ELSE 0,
                                0 - (t + 42))
                     : t \in { CHOOSE s \in 0..20 :
                                 /\ c * 2^s >= 819200
                                 /\ \A u \in 0..(s - 1) : c * 2^u < 819200 } })
          : c \in {c0} })

\* A natural number in limbs: the sequence a stands for the sum of
\* a[i] * 2^(14 * (i - 1)).  The significand of a double in four limbs:
Limbs(x) ==
    << x.lo % Two14,
       x.lo \div Two14 + (x.hi % 8) * Two11,
       (x.hi \div 8) % Two14,
       x.hi \div Two17 >>

\* the place of the highest limb that is not 0, 0 when there is none
BigTop(a) ==
    IF \A i \in DOMAIN a : a[i] = 0 THEN 0
    ELSE CHOOSE t \in DOMAIN a : a[t] # 0 /\ \A u \in (t + 1)..Len(a) : a[u] = 0

\* limb i of a, 0 below the first limb
BigAt(a, i) == IF i >= 1 THEN a[i] ELSE 0

\* the shift s that brings A, 2^14 <= A < 2^28, to 2^27 <= A * 2^s < 2^28
BigShift(A) == CHOOSE k \in 0..13 : A >= 2^(27 - k) /\ A < 2^(28 - k)

\* the double nearest to (a + st * eps) * 2^e, ties to the even significand
DFromBig(a0, st, e) ==
    The({ IF BigTop(a) = 0 THEN DZero
          ELSE The({ LET t == w[1]
                         p == 2^w[2]
                         A == BigAt(a, t) * Two14 + BigAt(a, t - 1)
                         B == BigAt(a, t - 2) * Two14 + BigAt(a, t - 3)
                         C == BigAt(a, t - 4)
                         lost == \/ st = 1
                                 \/ \E i \in 1..(t - 5) : a[i] # 0
                                 \/ C % (Two14 \div p) # 0
                     IN  DRound(A * p + B \div (Two28 \div p),
                                (B % (Two28 \div p)) * p + C \div (Two14 \div p),
                                IF lost THEN 1 ELSE 0,
                                14 - w[2] + 14 * (t - 5) + e)
                     : w \in { << BigTop(a),
                                  BigShift(BigAt(a, BigTop(a)) * Two14
                                             + BigAt(a, BigTop(a) - 1)) >> } })
          : a \in {a0} })

\* column k of the long multiplication of a and b
RECURSIVE BigColumn(_, _, _, _)
BigColumn(a, b, k, i) ==
    IF i > Len(a) THEN 0
    ELSE (IF (k + 1 - i) \in DOMAIN b THEN a[i] * b[k + 1 - i] ELSE 0)
           + BigColumn(a, b, k, i + 1)

\* the limbs of a number given by its columns, from column k on
RECURSIVE BigCarry(_, _, _)
BigCarry(cols0, k, carry0) ==
    The({ IF k > Len(cols) THEN << >>
          ELSE << (cols[k] + carry) % Two14 >>
                 \o BigCarry(cols, k + 1, (cols[k] + carry) \div Two14)
          : cols \in {cols0}, carry \in {carry0} })

\* a * b
BigMul(a0, b0) ==
    The({ BigCarry(SubSeq([ k \in 1..(Len(a) + Len(b)) |-> BigColumn(a, b, k, 1) ],
                          1, Len(a) + Len(b)), 1, 0)
          : a \in {a0}, b \in {b0} })

\* a - b from limb k on, a >= b
RECURSIVE BigSub(_, _, _, _)
BigSub(a0, b0, k, borrow0) ==
    The({ IF k > Len(a) THEN << >>
          ELSE LET d == a[k] - (IF k \in DOMAIN b THEN b[k] ELSE 0) - borrow
               IN  << IF d < 0 THEN d + Two14 ELSE d >>
                     \o BigSub(a, b, k + 1, IF d < 0 THEN 1 ELSE 0)
          : a \in {a0}, b \in {b0}, borrow \in {borrow0} })

\* the limbs k.. of a divided by n < 2^14: quotient q and remainder r
RECURSIVE BigDiv(_, _, _)
BigDiv(a, n, k) ==
    IF k > Len(a) THEN [ q |-> << >>, r |-> 0 ]
    ELSE The({ LET cur == up.r * Two14 + a[k]
               IN  [ q |-> << cur \div n >> \o up.q, r |-> cur % n ]
               : up \in { BigDiv(a, n, k + 1) } })

\* float(n) of an int 0 <= n < 2^31
DInt(n) == DFromBig(<< n % Two14, (n \div Two14) % Two14, n \div Two28 >>, 0, 0)

\* x * y in double arithmetic
DMul(x0, y0) ==
    The({ IF x = DZero \/ y = DZero THEN DZero
          ELSE DFromBig(BigMul(Limbs(x), Limbs(y)), 0, x.exp + y.exp)
          : x \in {x0}, y \in {y0} })

\* x / n in double arithmetic, n an int with 0 < n < 2^14
DDivInt(x0, n) ==
    The({ IF x = DZero THEN DZero
          ELSE The({ DFromBig(d.q, IF d.r # 0 THEN 1 ELSE 0, x.exp - 70)
                     : d \in { BigDiv(<< 0, 0, 0, 0, 0 >> \o Limbs(x), n, 1) } })
          : x \in {x0} })

\* x - y in double arithmetic, for x >= y
DSub(x0, y0) ==
    The({ IF y = DZero \/ x.exp - y.exp >= 56 THEN x
          ELSE LET d == x.exp - y.exp
                   X == BigMul(SubSeq(<< 0, 0, 0 >>, 1, d \div 14) \o Limbs(x),
                               << 2^(d % 14) >>)
               IN  DFromBig(BigSub(X, Limbs(y), 1, 0), 0, y.exp)
          : x \in {x0}, y \in {y0} })

\* rint(x): the integer nearest to x, ties to the even one, for x < 2^27
DRint(x0) ==
    The({ IF x = DZero \/ 0 - x.exp >= 54 THEN 0
          ELSE LET p == 2^(0 - x.exp - 25)
                   whole == x.hi \div p
                   rest == x.hi % p
               IN  IF 2 * rest > p \/ (2 * rest = p /\ x.lo > 0) THEN whole + 1
                   ELSE IF 2 * rest = p /\ x.lo = 0 THEN whole + (whole % 2)
                   ELSE whole
          : x \in {x0} })
(***************************************************************************)
(* The raw CSV: rows of the order table.  Amounts and percentages are the  *)
(* decimal fields of the file, in hundredths.                              *)
(***************************************************************************)
Categories == << "Electronics", "Clothing", "Home & Kitchen", "Sports", "Beauty" >>
Regions == << "North America", "Europe", "Asia", "Oceania" >>
ProductNames == << "Widget", "Gadget", "Gizmo" >>

\* the draws of random.choices for the orders 1, 2, ...: payment method,
\* shipping method and status
PaymentDraws ==
    << "Credit Card", "Debit Card", "PayPal", "Credit Card", "Bank Transfer",
       "Debit Card", "Credit Card", "PayPal", "Debit Card", "Cash",
       "Credit Card", "Bank Transfer", "Debit Card", "PayPal", "Credit Card" >>
ShippingDraws ==
    << "Standard", "Express", "Standard", "Next Day", "Express", "Standard" >>
StatusDraws ==
    << "Pending", "Completed", "Completed", "Cancelled", "Completed",
       "Pending", "Delivered", "Completed", "Pending", "Cancelled" >>

Cyc(seq, k) == seq[1 + ((k - 1) % Len(seq))]

\* the unit prices drawn for the catalogue, between 10.00 and 1000.00
UnitPrice(p) ==
    CASE p = 1 -> 1232
      [] p = 2 -> 1268
      [] p = 3 -> 3000
      [] OTHER -> 500 * p + 500

\* generate_products: the p-th catalogue entry, PROD-(p-1); the cost price
\* is the unit price times a factor between 0.4 and 0.7, here 0.5
Product(p) ==
    [ Product_ID |-> p - 1,
      Product_Name |-> Cyc(ProductNames, p),
      Product_Category |-> Cyc(Categories, p),
      Unit_Price |-> UnitPrice(p),
      Cost_Price |-> UnitPrice(p) \div 2 ]

\* generate_customers: the c-th customer, CUST-(c-1), and the region
\* denormalised onto the order
Customer(c) ==
    [ Customer_ID |-> c - 1, Customer_Region |-> Cyc(Regions, c) ]

\* round(x, 2) of a double x, in hundredths.  The prices of a row of a pandas
\* frame are numpy.float64 cells, and so are the products and differences
\* built from them; their round is rint(x * 100) / 100.
Round2(x) == DRint(DMul(x, DInt(100)))

\* the money of an order of q units at unit price and cost price (in
\* hundredths) under a discount of pct hundredths of a percent: discount
\* amount, final price and profit, computed in doubles as the generator
\* computes them and then written to the file with two places.  The cost
\* does not exceed the final price.
Money(price, cost, q, pct) ==
    The({ The({ The({ The({ [ Discount_Percentage |-> pct,
                              Discount_Amount |-> discount_amount,
                              Final_Price |-> final_price,
                              Profit |-> profit ]
                            : profit \in
                                { Round2(DSub(ParseDouble(final_price), total_cost)) } })
                      : final_price \in
                          { Round2(DSub(total_price, ParseDouble(discount_amount))) } })
                : discount_amount \in
                    { Round2(DMul(total_price, DDivInt(ParseDouble(pct), 100))) } })
          : total_price \in { DMul(DInt(q), ParseDouble(price)) },
            total_cost \in { DMul(DInt(q), ParseDouble(cost)) } })

\* the discount of an order of q units by a customer of the region, in
\* hundredths of a percent: the base discount of 10.0 percent, the quantity
\* discount and the 5 percent of a Europe customer on top of it
DiscountPercentage(region, q) ==
    LET quantity_discount == IF q - 1 < 10 THEN q - 1 ELSE 10
        region_discount == IF region = "Europe" THEN 5 ELSE 0
    IN  1000 + 100 * quantity_discount + 100 * region_discount

\* the catalogue entries the files are generated from
CatalogueSize == TopLimit + MaxExtra + 2

\* the money of an order of one unit of each product of the catalogue, by
\* region of the customer
UnitAmount ==
    [ p \in 1..CatalogueSize |->
        [ region \in { Regions[r] : r \in DOMAIN Regions } |->
            Money(Product(p).Unit_Price, Product(p).Cost_Price, 1,
                  DiscountPercentage(region, 1)) ] ]

\* the money of an order of q units of product p by customer c
Amount(c, p, q) ==
    IF q = 1 /\ p \in DOMAIN UnitAmount
    THEN UnitAmount[p][Customer(c).Customer_Region]
    ELSE Money(Product(p).Unit_Price, Product(p).Cost_Price, q,
               DiscountPercentage(Customer(c).Customer_Region, q))

\* the range of the shipping cost starts at 5, 15 or 25 with the method
ShippingFloor(method) ==
    CASE method = "Standard" -> 500
      [] method = "Express" -> 1500
      [] method = "Next Day" -> 2500

\* the o-th order, ORD-(o-1), with its payment, shipping and status
Order(o) ==
    [ Order_ID |-> o - 1,
      Payment_Method |-> Cyc(PaymentDraws, o),
      Shipping_Method |-> Cyc(ShippingDraws, o),
      Shipping_Cost |-> ShippingFloor(Cyc(ShippingDraws, o)) + 50 * (o % 4),
      Order_Status |-> Cyc(StatusDraws, o) ]

\* generate_sales_data: the o-th record of sales_data, an order of date d by
\* customer c of q units of product p
MkRow(o, d, c, p, q) ==
    The({ [ Order_ID |-> Order(o).Order_ID,
            Order_Date |-> d,
            Customer_ID |-> Customer(c).Customer_ID,
            Customer_Region |-> Customer(c).Customer_Region,
            Product_ID |-> Product(p).Product_ID,
            Product_Name |-> Product(p).Product_Name,
            Product_Category |-> Product(p).Product_Category,
            Discount_Percentage |-> money.Discount_Percentage,
            Final_Price |-> money.Final_Price,
            Profit |-> money.Profit,
            Payment_Method |-> Order(o).Payment_Method,
            Shipping_Method |-> Order(o).Shipping_Method,
            Shipping_Cost |-> Order(o).Shipping_Cost,
            Order_Status |-> Order(o).Order_Status ]
          : money \in { Amount(c, p, q) } })

\* date, customer and product of a row of a short table
SmallDials == (1..2) \X (1..2) \X (1..2)

\* every generated file of at most MaxRows orders over two dates, two
\* customers and two products
SmallTables ==
    UNION { { [ i \in 1..n |-> MkRow(i, t[i][1], t[i][2], t[i][3], 1) ] :
                t \in [1..n -> SmallDials] } : n \in 0..MaxRows }

\* a file whose rows are the lines of one order
OneOrder(tbl) ==
    [ i \in DOMAIN tbl |-> [ tbl[i] EXCEPT !.Order_ID = tbl[1].Order_ID ] ]

\* a file in which the products stand under one Product_ID (a product that
\* was renamed keeps its id)
OneProductId(tbl) ==
    [ i \in DOMAIN tbl |-> [ tbl[i] EXCEPT !.Product_ID = tbl[1].Product_ID ] ]

\* files the generator does not write and read_sales_data reads all the same
EditedTables ==
    { OneOrder(t) : t \in SmallTables } \cup { OneProductId(t) : t \in SmallTables }

\* an empty cell of the Order_ID column of the file: a line without an order
\* number
EmptyCell == -1

\* a file in which the Order_ID cell of line k is empty
BlankOrderId(tbl, k) == [ tbl EXCEPT ![k].Order_ID = EmptyCell ]

\* files of one or two lines with one empty Order_ID cell, which the
\* generator does not write and read_sales_data reads without an error
BlankTables ==
    UNION { { BlankOrderId(t, k) : k \in DOMAIN t } :
              t \in { u \in SmallTables : Len(u) <= 2 } }

\* the shapes of a generated file: the catalogue in ascending or in
\* descending order, with amounts that doubles hold exactly ("odd", in files
\* of three orders, has amounts that doubles do not hold exactly)
ExactPatterns == { "asc", "desc" }

\* a file of n orders over g dates, g customers and g products
GenTable(n, g, pat) ==
    [ i \in 1..n |->
        LET j == IF pat = "desc" THEN n + 1 - i ELSE i
            k == 1 + ((j - 1) % g)
        IN  IF pat = "odd"
            THEN MkRow(i, k, i, k, k)
            ELSE MkRow(i, k, k, k + 2, 1) ]

GenSizes == { 3, 5, TopLimit, TopLimit + 1, TopLimit + MaxExtra }

GenTables ==
    { GenTable(n, g, pat) : n \in GenSizes, g \in {1, 2}, pat \in ExactPatterns }
      \cup { GenTable(n, n, pat) : n \in GenSizes, pat \in ExactPatterns }
      \cup { GenTable(3, g, "odd") : g \in {1, 2} }

\* the files the aggregations are checked on
Tables == SmallTables \cup EditedTables \cup BlankTables \cup GenTables

\* the decimal columns of the file, which inferSchema reads as doubles
DoubleColumns == { "Discount_Percentage", "Final_Price", "Profit", "Shipping_Cost" }

\* the columns of a line of the file whose cell is empty: the reader gives
\* NULL for them (nullValue is the empty string), and a NULL is no value of
\* the row
NullColumns(line) == { col \in { "Order_ID" } : line[col] = EmptyCell }

\* spark.read.csv(header=True, inferSchema=True): the rows of the DataFrame,
\* the decimal columns as doubles and the empty cells as NULL
read_sales_data(tbl) ==
    [ i \in DOMAIN tbl |->
        [ col \in DOMAIN tbl[i] \ NullColumns(tbl[i]) |->
            IF col \in DoubleColumns THEN ParseDouble(tbl[i][col]) ELSE tbl[i][col] ] ]
(***************************************************************************)
(* Spark column functions and DataFrame operations, as the job uses them   *)
(***************************************************************************)
\* acc + rows[i][col] + ... + rows[j][col], added from left to right; a sum
\* past the largest double would stay infinite
RECURSIVE SumFrom(_, _, _, _, _)
SumFrom(acc, rows, col, i, j) ==
    IF i > j \/ acc.exp > 970 THEN acc
    ELSE SumFrom(DAdd(acc, rows[i][col]), rows, col, i + 1, j)

\* the same sum from row i to the last row, taken sixteen rows at a time
RECURSIVE SumBlocks(_, _, _, _)
SumBlocks(acc, rows, col, i) ==
    IF i > Len(rows) \/ acc.exp > 970 THEN acc
    ELSE SumBlocks(SumFrom(acc, rows, col, i,
                           IF i + 15 < Len(rows) THEN i + 15 ELSE Len(rows)),
                   rows, col, i + 16)

\* F.sum(col) of a double column: the values added one after the other, in
\* the order in which the rows reach the aggregation
FSum(rows, col) == SumBlocks(DZero, rows, col, 1)

\* the rows of a group in which col is not NULL
NotNull(rows, col) == { i \in 1..Len(rows) : col \in DOMAIN rows[i] }

\* F.count(col): the rows of the group in which col is not NULL
FCount(rows, col) == Cardinality(NotNull(rows, col))

\* mutant of FCountDistinct: F.count, every row with a value counted
FCountDistinct_AsCount(rows, col) == Cardinality(NotNull(rows, col))

\* F.countDistinct(col): the distinct values of col, NULL not among them
FCountDistinct(rows, col) == Cardinality({ rows[i][col] : i \in NotNull(rows, col) })

\* F.avg(col): the double sum and the count of which Spark takes the quotient
FAvg(rows, col) == [ num |-> FSum(rows, col), den |-> FCount(rows, col) ]

\* the elements of a set of indices, ascending
SortedIdx(S) ==
    LET top == IF S = {} THEN 0 ELSE CHOOSE i \in S : \A j \in S : j <= i
    IN  SelectSeq([ i \in 1..top |-> i ], LAMBDA i : i \in S)

\* the values of the grouping columns in a row
KeyOf(r, cols) == [ c \in 1..Len(cols) |-> r[cols[c]] ]

\* mutant of GroupBy: only completed orders are grouped
GroupBy_Filtered(tbl, cols) ==
    LET kept == SelectSeq(tbl, LAMBDA r : r.Order_Status = "Completed")
        first == SortedIdx({ i \in 1..Len(kept) :
                    \A j \in 1..(i - 1) : KeyOf(kept[j], cols) # KeyOf(kept[i], cols) })
    IN  SubSeq([ g \in 1..Len(first) |->
                  [ key |-> KeyOf(kept[first[g]], cols),
                    rows |-> SelectSeq(kept, LAMBDA r :
                               KeyOf(r, cols) = KeyOf(kept[first[g]], cols)) ] ],
               1, Len(first))

\* df.groupBy(cols): one group per distinct key, with the rows that carry it
GroupBy(tbl, cols) ==
    LET first == SortedIdx({ i \in 1..Len(tbl) :
                    \A j \in 1..(i - 1) : KeyOf(tbl[j], cols) # KeyOf(tbl[i], cols) })
    IN  SubSeq([ g \in 1..Len(first) |->
                  [ key |-> KeyOf(tbl[first[g]], cols),
                    rows |-> SelectSeq(tbl, LAMBDA r :
                               KeyOf(r, cols) = KeyOf(tbl[first[g]], cols)) ] ],
               1, Len(first))

\* the aggregate columns the reports are sorted by that are doubles
DoubleKeys == { "category_sales", "regional_sales", "total_amount", "total_sales" }

\* x < y for two values of the sort column
KeyLess(col, x, y) == IF col \in DoubleKeys THEN DLess(x, y) ELSE x < y

\* mutant of OrderBy: .desc() is lost, the sort is always ascending
OrderBy_Ascending(rows, col, dir, tie) ==
    LET n == Len(rows)
        row == SubSeq(rows, 1, n)
        val == SubSeq([ a \in 1..n |-> row[a][col] ], 1, n)
        Before(a, b) ==
            \/ KeyLess(col, val[a], val[b])
            \/ /\ val[a] = val[b]
               /\ IF tie = "keep" THEN a < b ELSE a > b
        rank == SubSeq([ a \in 1..n |-> Cardinality({ b \in 1..n : Before(b, a) }) ],
                       1, n)
    IN  SubSeq([ r \in 1..n |-> row[CHOOSE a \in 1..n : rank[a] = r - 1] ], 1, n)

\* .orderBy(col) / .orderBy(F.col(col).desc()); Spark leaves the order of
\* rows with equal col open: they come out in the order in which they
\* reached the sort (tie "keep") or in the reverse of it ("flip")
OrderBy(rows, col, dir, tie) ==
    LET n == Len(rows)
        row == SubSeq(rows, 1, n)
        val == SubSeq([ a \in 1..n |-> row[a][col] ], 1, n)
        Before(a, b) ==
            \/ dir = "desc" /\ KeyLess(col, val[b], val[a])
            \/ dir = "asc" /\ KeyLess(col, val[a], val[b])
            \/ /\ val[a] = val[b]
               /\ IF tie = "keep" THEN a < b ELSE a > b
        rank == SubSeq([ a \in 1..n |-> Cardinality({ b \in 1..n : Before(b, a) }) ],
                       1, n)
    IN  SubSeq([ r \in 1..n |-> row[CHOOSE a \in 1..n : rank[a] = r - 1] ], 1, n)

\* .limit(n)
Limit(rows, n) == SubSeq(rows, 1, IF Len(rows) < n THEN Len(rows) ELSE n)

\* the partition Spark's hash partitioner sends an Order_Date to; the hash
\* itself is the engine's, seed stands for it
PartitionOf(date, seed) == (date + seed) % NumPartitions

\* mutant of Repartition: the partitions are numbered from 1, and the rows
\* hashed to 0 are in none of them
Repartition_OffByOne(tbl, seed) ==
    [ p \in 1..NumPartitions |->
        SelectSeq(tbl, LAMBDA r : PartitionOf(r.Order_Date, seed) = p) ]

\* df.repartition(8, "Order_Date"): the rows of each of the 8 partitions
Repartition(tbl, seed) ==
    [ p \in 1..NumPartitions |->
        SelectSeq(tbl, LAMBDA r : PartitionOf(r.Order_Date, seed) = p - 1) ]

RECURSIVE ConcatTo(_, _)
ConcatTo(parts, n) ==
    IF n = 0 THEN << >> ELSE ConcatTo(parts, n - 1) \o parts[n]

\* the rows of a partitioned DataFrame, partition after partition
Collect(parts) == ConcatTo(parts, Len(parts))

(***************************************************************************)
(* The seven reports of process_sales_metrics                              *)
(***************************************************************************)
daily_sales(tbl, tie) ==
    LET g == GroupBy(tbl, << "Order_Date" >>)
        agg == [ i \in 1..Len(g) |->
                   [ Order_Date |-> g[i].key[1],
                     daily_sales |-> FSum(g[i].rows, "Final_Price"),
                     daily_profit |-> FSum(g[i].rows, "Profit"),
                     daily_orders |-> FCountDistinct(g[i].rows, "Order_ID"),
                     daily_customers |-> FCountDistinct(g[i].rows, "Customer_ID"),
                     avg_discount |-> FAvg(g[i].rows, "Discount_Percentage") ] ]
    IN  OrderBy(agg, "Order_Date", "asc", tie)

category_performance(tbl, tie) ==
    LET g == GroupBy(tbl, << "Product_Category" >>)
        agg == [ i \in 1..Len(g) |->
                   [ Product_Category |-> g[i].key[1],
                     category_sales |-> FSum(g[i].rows, "Final_Price"),
                     category_profit |-> FSum(g[i].rows, "Profit"),
                     orders_count |-> FCount(g[i].rows, "Order_ID"),
                     avg_discount |-> FAvg(g[i].rows, "Discount_Percentage") ] ]
    IN  OrderBy(agg, "category_sales", "desc", tie)

regional_analysis(tbl, tie) ==
    LET g == GroupBy(tbl, << "Customer_Region" >>)
        agg == [ i \in 1..Len(g) |->
                   [ Customer_Region |-> g[i].key[1],
                     regional_sales |-> FSum(g[i].rows, "Final_Price"),
                     customer_count |-> FCountDistinct(g[i].rows, "Customer_ID"),
                     avg_order_value |-> FAvg(g[i].rows, "Final_Price") ] ]
    IN  OrderBy(agg, "regional_sales", "desc", tie)

payment_analysis(tbl, tie) ==
    LET g == GroupBy(tbl, << "Payment_Method" >>)
        agg == [ i \in 1..Len(g) |->
                   [ Payment_Method |-> g[i].key[1],
                     transaction_count |-> FCount(g[i].rows, "Order_ID"),
                     total_amount |-> FSum(g[i].rows, "Final_Price"),
                     avg_transaction_amount |-> FAvg(g[i].rows, "Final_Price") ] ]
    IN  OrderBy(agg, "total_amount", "desc", tie)

\* mutant of top_products: limit(100) is applied before the orderBy
top_products_LimitFirst(tbl, tie) ==
    LET g == GroupBy(tbl, << "Product_ID", "Product_Name" >>)
        agg == [ i \in 1..Len(g) |->
                   [ Product_ID |-> g[i].key[1],
                     Product_Name |-> g[i].key[2],
                     total_sales |-> FSum(g[i].rows, "Final_Price"),
                     total_profit |-> FSum(g[i].rows, "Profit"),
                     order_count |-> FCount(g[i].rows, "Order_ID"),
                     avg_discount |-> FAvg(g[i].rows, "Discount_Percentage") ] ]
    IN  OrderBy(Limit(agg, TopLimit), "total_sales", "desc", tie)

top_products(tbl, tie) ==
    LET g == GroupBy(tbl, << "Product_ID", "Product_Name" >>)
        agg == [ i \in 1..Len(g) |->
                   [ Product_ID |-> g[i].key[1],
                     Product_Name |-> g[i].key[2],
                     total_sales |-> FSum(g[i].rows, "Final_Price"),
                     total_profit |-> FSum(g[i].rows, "Profit"),
                     order_count |-> FCount(g[i].rows, "Order_ID"),
                     avg_discount |-> FAvg(g[i].rows, "Discount_Percentage") ] ]
    IN  Limit(OrderBy(agg, "total_sales", "desc", tie), TopLimit)

status_analysis(tbl, tie) ==
    LET g == GroupBy(tbl, << "Order_Status" >>)
        agg == [ i \in 1..Len(g) |->
                   [ Order_Status |-> g[i].key[1],
                     order_count |-> FCount(g[i].rows, "Order_ID"),
                     total_amount |-> FSum(g[i].rows, "Final_Price"),
                     avg_order_amount |-> FAvg(g[i].rows, "Final_Price") ] ]
    IN  OrderBy(agg, "order_count", "desc", tie)

shipping_analysis(tbl, tie) ==
    LET g == GroupBy(tbl, << "Shipping_Method" >>)
        agg == [ i \in 1..Len(g) |->
                   [ Shipping_Method |-> g[i].key[1],
                     shipment_count |-> FCount(g[i].rows, "Order_ID"),
                     avg_shipping_cost |-> FAvg(g[i].rows, "Shipping_Cost"),
                     total_sales |-> FSum(g[i].rows, "Final_Price") ] ]
    IN  OrderBy(agg, "shipment_count", "desc", tie)

\* process_sales_metrics(df): the dict of the seven reports.  A report is a
\* lazy DataFrame, the plan of an aggregation over the repartitioned input;
\* nothing is computed before an action (a write, a collect) executes it
process_sales_metrics(tbl) ==
    [ n \in ReportNameSet |-> [ report |-> n, input |-> tbl ] ]

\* the permutations of 1..n
Perms(n) ==
    { f \in [1..n -> 1..n] : \A i, j \in 1..n : f[i] = f[j] => i = j }

Ties == { "keep", "flip" }

\* the placements of the dates on the partitions that are told apart
Seeds == { 0, 7 }

\* the executions of a plan over n rows that are told apart: the order in
\* which the rows (the partial aggregates of the tasks) reach the
\* aggregation, and the order in which the sort leaves equal keys.  Every
\* order of arrival is taken for a table of at most MaxShuffle rows, and
\* with it every order of equal keys and every order of addition of up to
\* three values; the tables of more rows have sums that are exact in every
\* order, and a longer table has at most two equal keys in a report, whose
\* two orders are taken
Schedules(n) ==
    IF n <= MaxShuffle
    THEN { [ ord |-> f, tie |-> "keep" ] : f \in Perms(n) }
    ELSE { [ ord |-> [ i \in 1..n |-> i ], tie |-> t ] : t \in Ties }

\* the orders of arrival among them
Orders(n) == { s.ord : s \in Schedules(n) }

\* the rows in their order of arrival
Arrive(rows, ord) ==
    SubSeq([ i \in 1..Len(rows) |-> rows[ord[i]] ], 1, Len(rows))

\* the aggregation of a report over the rows in their order of arrival
Compute(name, rows, tie) ==
    CASE name = "daily_sales" -> daily_sales(rows, tie)
      [] name = "category_performance" -> category_performance(rows, tie)
      [] name = "regional_analysis" -> regional_analysis(rows, tie)
      [] name = "payment_analysis" -> payment_analysis(rows, tie)
      [] name = "top_products" -> top_products(rows, tie)
      [] name = "status_analysis" -> status_analysis(rows, tie)
      [] name = "shipping_analysis" -> shipping_analysis(rows, tie)

\* one execution of the plan of a report: the rows it gives
Execute(plan, seed, sch) ==
    Compute(plan.report,
            Arrive(Collect(Repartition(plan.input, seed)), sch.ord), sch.tie)

\* the jobs that can execute a plan (each action on a report runs one): the partitions of the table in the
\* job and the rows the job gives
Jobs(plan) ==
    { [ partitions |-> Repartition(plan.input, seed),
        rows |-> Execute(plan, seed, sch) ] :
          seed \in Seeds, sch \in Schedules(Len(plan.input)) }

\* value of the reports variable before process_sales_metrics has returned
NoReports == [ n \in ReportNameSet |-> << >> ]

(***************************************************************************)
(* The environment of a run: config/config.yaml, the raw CSV, the clock    *)
(***************************************************************************)
\* config/config.yaml: unreadable, or the keys it has under data_paths
\* (create_config_files writes 'paths', so a generated file has none)
Configs ==
    { [ readable |-> FALSE, keys |-> {} ] }
      \cup { [ readable |-> TRUE, keys |-> K ] :
               K \in { ConfigKeys, {} } \cup { ConfigKeys \ {k} : k \in ConfigKeys } }

\* the files a pipeline run is started on: the header alone, and a file of
\* one order
PipelineTables ==
    { << >>, << MkRow(1, 1, 1, 3, 1) >> }

\* <raw>/product_sales_data.csv: missing, or a file
Sources ==
    { [ exists |-> FALSE, rows |-> << >> ] }
      \cup { [ exists |-> TRUE, rows |-> t ] : t \in PipelineTables }

\* datetime.now().strftime("%Y%m%d_%H%M%S"): the local time cut to the second
Strftime(now) == now \div TicksPerSecond

\* mutant of CsvPath: the name without the timestamp
CsvPath_NoStamp(name, ts) == [ name |-> name, ts |-> 0, ext |-> "" ]

\* os.path.join(curated, f"{report_name}_{timestamp}")
CsvPath(name, ts) == [ name |-> name, ts |-> ts, ext |-> "" ]

\* mutant of ParquetPath: the '.parquet' suffix left out
ParquetPath_NoSuffix(name, ts) == [ name |-> name, ts |-> ts, ext |-> "" ]

\* os.path.join(curated, f"{report_name}_{timestamp}.parquet")
ParquetPath(name, ts) == [ name |-> name, ts |-> ts, ext |-> ".parquet" ]

\* write.csv / write.parquet with mode="overwrite": the path now holds this data
Overwrite(fs, path, data) == (path :> data) @@ fs

\* the artifact a write that succeeded leaves: the rows, committed (_SUCCESS)
Artifact(r, rows) == [ run |-> r, complete |-> TRUE, rows |-> rows ]

\* what a write job that was aborted leaves: a directory without _SUCCESS
\* that holds none or a part of the output
Aborted(r) == [ run |-> r, complete |-> FALSE ]

\* where a write with mode="overwrite" can fail: before it has touched the
\* target, after it has deleted what was at the target, or in its job
WriteFates == { "untouched", "deleted", "aborted" }

\* the curated directory after a write to path that failed
FailedWrite(fs, path, fate, r) ==
    CASE fate = "untouched" -> fs
      [] fate = "deleted" -> [ q \in DOMAIN fs \ {path} |-> fs[q] ]
      [] fate = "aborted" -> Overwrite(fs, path, Aborted(r))

Ev(e) == [ ev |-> e, report |-> "-" ]
EvR(e, name) == [ ev |-> e, report |-> name ]

\* the order in which __init__ creates the directories
MakeDirs == << "curated", "processed", "reports" >>

VARIABLES
    config,     \* the configuration file of the runs
    source,     \* the raw CSV file of the runs
    clock,      \* local wall clock, in sub-second ticks
    dirs,       \* directories created by os.makedirs
    files,      \* the curated directory: path -> writer and what it left
    run,        \* number of the current engine instance (process)
    pc,         \* where the current instance is
    session,    \* self.spark: "none", "active", "stopped"
    nAcquire,   \* getOrCreate calls of the current instance
    nRelease,   \* spark.stop() calls of the current instance
    df,         \* the DataFrame read_sales_data returned
    repartitioned, \* df.repartition(8, "Order_Date") executed: its partitions
    reports,    \* the dict process_sales_metrics returned: the plans
    collected,  \* per report, the rows its plan gave when a job executed it
    summary,    \* the row generate_summary_metrics collected
    timestamp,  \* the timestamp save_reports took
    idx,        \* position of save_reports in reports.items()
    raising,    \* an exception is propagating out of run_analytics
    log,        \* what the current instance has done, in order
    written,    \* per run, the paths it has written
    stamps,     \* per run, the timestamps its save_reports calls took
    faults,     \* runs that a failure of the environment has ended
    processor,  \* a DataProcessor: its config
    result      \* what DataProcessor.process_data returned

vars ==
    << config, source, clock, dirs, files, run, pc, session, nAcquire,
       nRelease, df, repartitioned, reports, collected, summary, timestamp, idx, raising,
       log, written, stamps, faults, processor, result >>

envvars == << config, source >>
\* no DataProcessor is part of the analytics job
NoProcessor == [ config |-> {} ]
datavars == << df, repartitioned, reports, collected, summary >>
procvars == << processor, result >>
savevars == << files, timestamp, idx, written, stamps >>
sessionvars == << session, nAcquire, nRelease >>

\* whether the environment fails a step: at most MaxFaults runs are ended
\* by such a failure
EnvFails == IF faults < MaxFaults THEN BOOLEAN ELSE { FALSE }

Init ==
    /\ config \in Configs
    /\ source \in Sources
    /\ clock = 0
    /\ dirs = {}
    /\ files = << >>
    /\ run = 1
    /\ pc = "start"
    /\ session = "none"
    /\ nAcquire = 0
    /\ nRelease = 0
    /\ df = << >>
    /\ repartitioned = << >>
    /\ reports = NoReports
    /\ collected = NoReports
    /\ summary = << >>
    /\ timestamp = 0
    /\ idx = 0
    /\ raising = FALSE
    /\ log = << >>
    /\ written = [ r \in 1..MaxRuns |-> {} ]
    /\ stamps = [ r \in 1..MaxRuns |-> {} ]
    /\ processor = NoProcessor
    /\ faults = 0
    /\ result = << >>

\* the wall clock advances; the job reads it in save_reports only, so the
\* time that has passed is taken there
Tick ==
    /\ pc = "save"
    /\ clock < MaxClock
    /\ clock' = clock + 1
    /\ UNCHANGED << procvars, envvars, faults, dirs, run, pc, sessionvars, datavars, savevars,
                    raising, log >>

\* the local time is set back (end of daylight saving time, clock adjustment)
StepBack ==
    /\ pc = "save"
    /\ clock >= TicksPerSecond
    /\ clock' = clock - TicksPerSecond
    /\ UNCHANGED << procvars, envvars, faults, dirs, run, pc, sessionvars, datavars, savevars,
                    raising, log >>

\* first directory of MakeDirs that cannot be created: its key is missing
\* (KeyError) or os.makedirs fails on it (osfail); 0 when all three are made
FirstBadDir(cfg, osfail) ==
    LET bad == { i \in 1..Len(MakeDirs) :
                   MakeDirs[i] \notin cfg.keys \/ osfail = i }
    IN  IF bad = {} THEN 0 ELSE CHOOSE i \in bad : \A j \in bad : i <= j

\* SalesAnalytics.__init__
Construct ==
    /\ pc = "start"
    /\ IF ~config.readable
       THEN /\ pc' = "ctor_raised"
            /\ UNCHANGED << sessionvars, dirs >>
       ELSE \E osfail \in 0..Len(MakeDirs) :
              LET bad == FirstBadDir(config, osfail)
              IN  /\ session' = "active"
                  /\ nAcquire' = nAcquire + 1
                  /\ UNCHANGED nRelease
                  /\ dirs' = dirs \cup
                       { MakeDirs[i] : i \in 1..(IF bad = 0 THEN Len(MakeDirs) ELSE bad - 1) }
                  /\ pc' = IF bad = 0 THEN "constructed" ELSE "ctor_raised"
    /\ UNCHANGED << procvars, envvars, faults, clock, run, datavars, savevars, raising, log >>

\* run_analytics up to df.count(): read_sales_data and the record count
ReadSalesData ==
    /\ pc = "constructed"
    /\ \E envfail \in EnvFails :
         LET ok == "raw" \in config.keys /\ source.exists /\ ~envfail
         IN  /\ df' = IF ok THEN read_sales_data(source.rows) ELSE df
             /\ log' = log \o << Ev("start"), Ev("load") >>
                           \o (IF ok THEN << >> ELSE << Ev("failed") >>)
             /\ pc' = IF ok THEN "process" ELSE "except"
             /\ faults' = faults + (IF envfail THEN 1 ELSE 0)
    /\ UNCHANGED << procvars, envvars, clock, dirs, run, sessionvars, repartitioned,
                    reports, collected, summary, savevars, raising >>

\* mutant of ProcessSalesMetrics: the summary is called before save_reports
ProcessSalesMetrics_SummaryFirst ==
    /\ pc = "process"
    /\ reports' = process_sales_metrics(df)
    /\ log' = log \o << Ev("repartition"), Ev("computeReports") >>
    /\ pc' = "summary"
    /\ UNCHANGED << procvars, envvars, faults, clock, dirs, run, sessionvars, df,
                    repartitioned, collected, summary, savevars, raising >>

\* reports = self.process_sales_metrics(df): the plans are built, no job runs
ProcessSalesMetrics ==
    /\ pc = "process"
    /\ \E envfail \in EnvFails :
         /\ reports' = IF envfail THEN reports ELSE process_sales_metrics(df)
         /\ log' = log \o << Ev("repartition"), Ev("computeReports") >>
                       \o (IF envfail THEN << Ev("failed") >> ELSE << >>)
         /\ pc' = IF envfail THEN "except" ELSE "save"
         /\ faults' = faults + (IF envfail THEN 1 ELSE 0)
    /\ UNCHANGED << procvars, envvars, clock, dirs, run, sessionvars, df,
                    repartitioned, collected, summary, savevars, raising >>

\* save_reports: the timestamp, taken before the loop
SaveReportsBegin ==
    /\ pc = "save"
    /\ timestamp' = Strftime(clock)
    /\ stamps' = [ stamps EXCEPT ![run] = @ \cup {Strftime(clock)} ]
    /\ idx' = 1
    /\ log' = Append(log, Ev("persist"))
    /\ pc' = "write_csv"
    /\ UNCHANGED << procvars, envvars, faults, clock, dirs, run, sessionvars, datavars, files,
                    written, raising >>

\* save_reports: df.coalesce(1).write.csv(csv_path, header=True, mode="overwrite");
\* the write executes the plan of the report, or it fails and the
\* exception leaves save_reports
WriteCsv ==
    /\ pc = "write_csv"
    /\ LET name == ReportNames[idx]
           path == CsvPath(name, timestamp)
       IN  \/ \E job \in Jobs(reports[name]) :
                /\ files' = Overwrite(files, path, Artifact(run, job.rows))
                /\ written' = [ written EXCEPT ![run] = @ \cup {path} ]
                /\ log' = log \o << EvR("write_csv", name) >>
                /\ pc' = "write_parquet"
                /\ faults' = faults
           \/ \E fate \in WriteFates, envfail \in EnvFails \ { FALSE } :
                /\ files' = FailedWrite(files, path, fate, run)
                /\ written' = written
                /\ faults' = faults + 1
                /\ log' = log \o << EvR("write_csv", name), Ev("failed") >>
                /\ pc' = "except"
    /\ UNCHANGED << procvars, envvars, clock, dirs, run, sessionvars, datavars,
                    timestamp, idx, stamps, raising >>

\* mutant of WriteParquet: when the parquet write fails, the csv artifact
\* of the report is removed again
WriteParquet_CleanupOnFail ==
    /\ pc = "write_parquet"
    /\ LET name == ReportNames[idx]
           path == ParquetPath(name, timestamp)
       IN  \/ \E job \in Jobs(reports[name]) :
                /\ files' = Overwrite(files, path, Artifact(run, job.rows))
                /\ written' = [ written EXCEPT ![run] = @ \cup {path} ]
                /\ log' = log \o << EvR("write_parquet", name), EvR("saved", name) >>
                /\ idx' = idx + 1
                /\ pc' = IF idx = NumReports THEN "summary" ELSE "write_csv"
                /\ faults' = faults
           \/ \E fate \in WriteFates, envfail \in EnvFails \ { FALSE } :
                /\ files' = LET fs == FailedWrite(files, path, fate, run)
                            IN  [ q \in DOMAIN fs \ { CsvPath(name, timestamp) }
                                  |-> fs[q] ]
                /\ written' = written
                /\ faults' = faults + 1
                /\ log' = log \o << EvR("write_parquet", name), Ev("failed") >>
                /\ idx' = idx
                /\ pc' = "except"
    /\ UNCHANGED << procvars, envvars, clock, dirs, run, sessionvars, datavars,
                    timestamp, stamps, raising >>

\* save_reports: df.write.parquet(parquet_path, mode="overwrite"), which
\* executes the plan of the report once more, the print, and the step of
\* the loop
WriteParquet ==
    /\ pc = "write_parquet"
    /\ LET name == ReportNames[idx]
           path == ParquetPath(name, timestamp)
       IN  \/ \E job \in Jobs(reports[name]) :
                /\ files' = Overwrite(files, path, Artifact(run, job.rows))
                /\ written' = [ written EXCEPT ![run] = @ \cup {path} ]
                /\ log' = log \o << EvR("write_parquet", name), EvR("saved", name) >>
                /\ idx' = idx + 1
                /\ pc' = IF idx = NumReports THEN "summary" ELSE "write_csv"
                /\ faults' = faults
           \/ \E fate \in WriteFates, envfail \in EnvFails \ { FALSE } :
                /\ files' = FailedWrite(files, path, fate, run)
                /\ written' = written
                /\ faults' = faults + 1
                /\ log' = log \o << EvR("write_parquet", name), Ev("failed") >>
                /\ idx' = idx
                /\ pc' = "except"
    /\ UNCHANGED << procvars, envvars, clock, dirs, run, sessionvars, datavars,
                    timestamp, stamps, raising >>

\* F.sum over the whole DataFrame in df.agg: NULL, written << >>, over no rows
AggSum(tbl, col) == IF Len(tbl) = 0 THEN << >> ELSE << FSum(tbl, col) >>

\* F.avg over the whole DataFrame in df.agg: NULL over no rows
AggAvg(tbl, col) == IF Len(tbl) = 0 THEN << >> ELSE << FAvg(tbl, col) >>

\* summary_metrics = df.agg(...).collect()[0], over the rows in the order in
\* which they reach the aggregation
generate_summary_metrics(tbl) ==
    [ total_sales |-> AggSum(tbl, "Final_Price"),
      total_profit |-> AggSum(tbl, "Profit"),
      total_orders |-> FCountDistinct(tbl, "Order_ID"),
      unique_customers |-> FCountDistinct(tbl, "Customer_ID"),
      avg_discount |-> AggAvg(tbl, "Discount_Percentage"),
      avg_order_value |-> AggAvg(tbl, "Final_Price") ]

\* generate_summary_metrics can print its figures: over no rows the sums and
\* averages are None, and formatting None with ':,.2f' raises TypeError
SummaryPrints(tbl) == Len(tbl) > 0

\* self.generate_summary_metrics(df) and the 'completed successfully' print
GenerateSummary ==
    /\ pc = "summary"
    /\ \E envfail \in EnvFails, ord \in Orders(Len(df)) :
         LET ok == SummaryPrints(df) /\ ~envfail
         IN  /\ summary' = IF envfail THEN summary
                           ELSE << generate_summary_metrics(Arrive(df, ord)) >>
             /\ log' = log \o << Ev("summarize") >>
                           \o (IF ok THEN << Ev("completed") >> ELSE << Ev("failed") >>)
             /\ pc' = IF ok THEN "finally" ELSE "except"
             /\ faults' = faults + (IF envfail THEN 1 ELSE 0)
    /\ UNCHANGED << procvars, envvars, clock, dirs, run, sessionvars, df,
                    repartitioned, reports, collected, savevars, raising >>

\* mutant of Except: the error is printed and swallowed (no raise)
Except_Swallow ==
    /\ pc = "except"
    /\ log' = Append(log, Ev("error_reported"))
    /\ raising' = FALSE
    /\ pc' = "finally"
    /\ UNCHANGED << procvars, envvars, faults, clock, dirs, run, sessionvars, datavars, savevars >>

\* except Exception as e: print the error, raise
Except ==
    /\ pc = "except"
    /\ log' = Append(log, Ev("error_reported"))
    /\ raising' = TRUE
    /\ pc' = "finally"
    /\ UNCHANGED << procvars, envvars, faults, clock, dirs, run, sessionvars, datavars, savevars >>

\* mutant of Finally: spark.stop() at the end of the try block, not in finally
Finally_StopInTry ==
    /\ pc = "finally"
    /\ session' = IF raising THEN session ELSE "stopped"
    /\ nRelease' = IF raising THEN nRelease ELSE nRelease + 1
    /\ UNCHANGED nAcquire
    /\ log' = IF raising THEN log ELSE Append(log, Ev("release"))
    /\ pc' = IF raising THEN "raised" ELSE "returned"
    /\ UNCHANGED << procvars, envvars, faults, clock, dirs, run, datavars, savevars, raising >>

\* finally: self.spark.stop(); then run_analytics returns or the exception leaves it
Finally ==
    /\ pc = "finally"
    /\ session' = "stopped"
    /\ nRelease' = nRelease + 1
    /\ UNCHANGED nAcquire
    /\ log' = Append(log, Ev("release"))
    /\ pc' = IF raising THEN "raised" ELSE "returned"
    /\ UNCHANGED << procvars, envvars, faults, clock, dirs, run, datavars, savevars, raising >>

Terminal == { "returned", "raised", "ctor_raised" }

\* the job is started again (__main__): a new process and a new instance,
\* over the same configuration, input and output directory
NextRun ==
    /\ pc \in Terminal
    /\ run < MaxRuns
    /\ run' = run + 1
    /\ pc' = "start"
    /\ session' = "none"
    /\ nAcquire' = 0
    /\ nRelease' = 0
    /\ df' = << >>
    /\ repartitioned' = << >>
    /\ reports' = NoReports
    /\ collected' = NoReports
    /\ summary' = << >>
    /\ timestamp' = 0
    /\ idx' = 0
    /\ raising' = FALSE
    /\ log' = << >>
    /\ UNCHANGED << procvars, envvars, faults, clock, dirs, files, written, stamps >>

Next ==
    \/ Tick
    \/ StepBack
    \/ Construct
    \/ ReadSalesData
    \/ ProcessSalesMetrics
    \/ SaveReportsBegin
    \/ WriteCsv
    \/ WriteParquet
    \/ GenerateSummary
    \/ Except
    \/ Finally
    \/ NextRun

Spec == Init /\ [][Next]_vars

(***************************************************************************)
(* process_sales_metrics alone, over every input table                     *)
(***************************************************************************)
AggInit ==
    /\ source \in { [ exists |-> TRUE, rows |-> t ] : t \in Tables }
    /\ df = read_sales_data(source.rows)
    /\ repartitioned = << >>
    /\ reports = NoReports
    /\ collected = NoReports
    /\ summary = << >>
    /\ pc = "agg_input"
    /\ config = [ readable |-> TRUE, keys |-> ConfigKeys ]
    /\ clock = 0
    /\ dirs = {}
    /\ files = << >>
    /\ run = 1
    /\ session = "active"
    /\ nAcquire = 1
    /\ nRelease = 0
    /\ timestamp = 0
    /\ idx = 0
    /\ raising = FALSE
    /\ log = << >>
    /\ written = [ r \in 1..MaxRuns |-> {} ]
    /\ stamps = [ r \in 1..MaxRuns |-> {} ]
    /\ processor = NoProcessor
    /\ faults = 0
    /\ result = << >>

\* reports = process_sales_metrics(df): the dict of the seven plans
AggCompute ==
    /\ pc = "agg_input"
    /\ reports' = process_sales_metrics(df)
    /\ idx' = 1
    /\ pc' = "agg_execute"
    /\ UNCHANGED << procvars, envvars, faults, clock, dirs, run, sessionvars, df,
                    repartitioned, collected, summary, files, timestamp, written,
                    stamps, raising, log >>

\* the next plan of reports.items() is executed by a job of its own, which
\* repartitions the table and aggregates the rows as they reach it
AggExecute ==
    /\ pc = "agg_execute"
    /\ LET name == ReportNames[idx]
       IN  \E job \in Jobs(reports[name]) :
             /\ repartitioned' = job.partitions
             /\ collected' = [ collected EXCEPT ![name] = job.rows ]
    /\ idx' = idx + 1
    /\ pc' = IF idx = NumReports THEN "agg_done" ELSE "agg_execute"
    /\ UNCHANGED << procvars, envvars, faults, clock, dirs, run, sessionvars, df, reports,
                    summary, files, timestamp, written, stamps, raising, log >>

\* generate_summary_metrics(df) over the same table
AggSummarize ==
    /\ pc = "agg_done"
    /\ \E ord \in Orders(Len(df)) :
         summary' = << generate_summary_metrics(Arrive(df, ord)) >>
    /\ pc' = "agg_summed"
    /\ UNCHANGED << procvars, envvars, faults, clock, dirs, run, sessionvars, df,
                    repartitioned, reports, collected, savevars, raising, log >>

AggNext == AggCompute \/ AggExecute \/ AggSummarize

AggSpec == AggInit /\ [][AggNext]_vars

(***************************************************************************)
(* DataProcessor (processor.py), over every input table                    *)
(***************************************************************************)
\* the config dicts a DataProcessor is built with: {} in the test, or a
\* loaded configuration
ProcessorConfigs == { {}, ConfigKeys }

\* DataProcessor(config): self.config = config
DataProcessor(cfg) == [ config |-> cfg ]

\* mutant of process_data: the placeholder has no return statement
process_data_ReturnsNone(self, tbl) ==
    [ self |-> self, df |-> tbl, returned |-> << >>, raised |-> FALSE ]

\* process_data(df): logs, then return df; the outcome of the call is the
\* processor and the argument after it, the value returned (<< >> is None)
\* and whether an exception left the method
process_data(self, tbl) ==
    [ self |-> self, df |-> tbl, returned |-> << tbl >>, raised |-> FALSE ]

ProcInit ==
    /\ source \in { [ exists |-> TRUE, rows |-> t ] : t \in Tables }
    /\ df = read_sales_data(source.rows)
    /\ processor \in { DataProcessor(cfg) : cfg \in ProcessorConfigs }
    /\ faults = 0
    /\ result = << >>
    /\ pc = "proc_input"
    /\ repartitioned = << >>
    /\ reports = NoReports
    /\ collected = NoReports
    /\ summary = << >>
    /\ config = [ readable |-> TRUE, keys |-> ConfigKeys ]
    /\ clock = 0
    /\ dirs = {}
    /\ files = << >>
    /\ run = 1
    /\ session = "none"
    /\ nAcquire = 0
    /\ nRelease = 0
    /\ timestamp = 0
    /\ idx = 0
    /\ raising = FALSE
    /\ log = << >>
    /\ written = [ r \in 1..MaxRuns |-> {} ]
    /\ stamps = [ r \in 1..MaxRuns |-> {} ]

\* result = processor.process_data(df)
ProcessData ==
    /\ pc = "proc_input"
    /\ LET out == process_data(processor, df)
       IN  /\ processor' = out.self
           /\ df' = out.df
           /\ result' = out.returned
           /\ raising' = out.raised
           /\ pc' = IF out.raised THEN "proc_raised" ELSE "proc_returned"
    /\ UNCHANGED << envvars, faults, clock, dirs, run, sessionvars, repartitioned,
                    reports, collected, summary, savevars, log >>

ProcNext == ProcessData

ProcSpec == ProcInit /\ [][ProcNext]_vars

(***************************************************************************)
(* Properties of the pipeline (Spec)                                       *)
(***************************************************************************)
HasEv(e) == \E i \in DOMAIN log : log[i].ev = e

\* the positions of the log that hold a write of an artifact
WriteEvents == { i \in DOMAIN log : log[i].ev \in { "write_csv", "write_parquet" } }

\* save_reports has returned: the print of the last report is in the log
PersistDone ==
    Cardinality({ i \in DOMAIN log : log[i].ev = "saved" }) = NumReports

\* C1: whenever run_analytics has returned or raised, whatever step failed
\* (a missing source path included), spark.stop() has released the session.
C1_ReleasedOnEveryExit ==
    pc \in { "returned", "raised" } =>
        /\ session = "stopped"
        /\ HasEv("release")

\* C1 witness: the source path does not exist, run_analytics has raised, and
\* the session is stopped
C1_Witness ==
    /\ pc = "raised"
    /\ ~source.exists
    /\ "raw" \in config.keys
    /\ session = "stopped"

\* C2: over the life of an instance the session is acquired once and released
\* exactly once on every exit path after the acquisition, a failure in the
\* constructor included, and all reading, aggregating and writing is done
\* while the session is held.
C2_AcquiredOnceReleasedOnce ==
    /\ nAcquire <= 1
    /\ pc \in Terminal => nRelease = nAcquire
    /\ pc \in { "process", "save", "write_csv", "write_parquet", "summary" }
           => session = "active"

\* the events of the log
Events ==
    { "start", "load", "repartition", "computeReports", "persist", "write_csv",
      "write_parquet", "saved", "summarize", "completed", "failed",
      "error_reported", "release" }

\* the order of the stages of a run
StageRanks ==
    [ ev \in Events |->
        CASE ev = "start" -> 0
          [] ev = "load" -> 1
          [] ev = "repartition" -> 2
          [] ev = "computeReports" -> 3
          [] ev = "persist" -> 4
          [] ev \in { "write_csv", "write_parquet", "saved" } -> 5
          [] ev \in { "summarize", "completed" } -> 6
          [] ev \in { "failed", "error_reported" } -> 7
          [] ev = "release" -> 8 ]

StageRank(e) == StageRanks[e.ev]

\* C3: the stages run in the order load, repartition, computeReports, persist,
\* summarize, release: nothing is written before the load, the summary comes
\* after all seven reports (fourteen writes) are persisted, the release is last.
C3_StagesInOrder ==
    /\ \A i \in 1..(Len(log) - 1) : StageRank(log[i]) <= StageRank(log[i + 1])
    /\ written[run] # {} => HasEv("load") /\ HasEv("computeReports")
    /\ HasEv("summarize") =>
          /\ Cardinality(WriteEvents) = 2 * NumReports
          /\ \A k \in 1..NumReports :
               /\ [ name |-> ReportNames[k], ts |-> timestamp, ext |-> "" ]
                     \in written[run]
               /\ [ name |-> ReportNames[k], ts |-> timestamp, ext |-> ".parquet" ]
                     \in written[run]
    /\ HasEv("release") => log[Len(log)].ev = "release" /\ session = "stopped"

\* C3 witness: a run that went through every stage and returned
C3_Witness ==
    /\ pc = "returned"
    /\ HasEv("load") /\ HasEv("summarize") /\ HasEv("release")
    /\ Cardinality(written[run]) = 2 * NumReports

\* C4: a failed stage is reported and re-raised, nothing is retried and no
\* later stage runs: the run ends raised, never 'completed successfully'.
C4_FailureAbortsRun ==
    /\ Cardinality({ log[i] : i \in DOMAIN log }) = Len(log)
    /\ \A i \in DOMAIN log : log[i].ev = "failed" =>
          /\ ~HasEv("completed")
          /\ pc # "returned"
          /\ \A j \in DOMAIN log :
               j > i => log[j].ev \in { "error_reported", "release" }
          /\ pc = "raised" => HasEv("error_reported") /\ raising
    /\ pc = "returned" => HasEv("completed")

\* C4 witness: the columnar write of a report failed and the run has raised
C4_Witness ==
    /\ pc = "raised"
    /\ \E i \in DOMAIN log :
         /\ i < Len(log)
         /\ log[i].ev = "write_parquet"
         /\ log[i + 1].ev = "failed"

\* C5 (as claimed): two runs write disjoint sets of paths and none of them
\* overwrites an artifact of the other, whatever the time between them.
C5_RerunsNeverCollide ==
    \A r1, r2 \in 1..MaxRuns :
        r1 # r2 =>
            /\ written[r1] \cap written[r2] = {}
            /\ \A p \in written[r1] : p \in DOMAIN files => files[p].run # r2

\* C5 (amended): two runs whose save_reports took different timestamps write
\* disjoint sets of paths and neither overwrites an artifact of the other.
C5_DistinctStampsNeverCollide ==
    \A r1, r2 \in 1..MaxRuns :
        (r1 # r2 /\ stamps[r1] \cap stamps[r2] = {}) =>
            /\ written[r1] \cap written[r2] = {}
            /\ \A p \in written[r1] : p \in DOMAIN files => files[p].run # r2

\* C5 witness: two complete runs with different timestamps
C5_Witness ==
    /\ Cardinality(written[1]) = 2 * NumReports
    /\ Cardinality(written[2]) = 2 * NumReports
    /\ stamps[1] # {} /\ stamps[2] # {}
    /\ stamps[1] \cap stamps[2] = {}

\* C6: after save_reports has returned, every report has exactly two artifacts
\* of this run, '<name>_<ts>' and '<name>_<ts>.parquet', and all fourteen carry
\* the one timestamp the run took.
C6_TwoArtifactsOneStamp ==
    PersistDone =>
        /\ stamps[run] = { timestamp }
        /\ Cardinality(written[run]) = 2 * NumReports
        /\ \A p \in written[run] : p.ts = timestamp
        /\ \A k \in 1..NumReports :
             LET mine == { p \in DOMAIN files :
                             /\ p.name = ReportNames[k]
                             /\ p.ts = timestamp }
             IN  /\ mine = { [ name |-> ReportNames[k], ts |-> timestamp, ext |-> "" ],
                             [ name |-> ReportNames[k], ts |-> timestamp,
                               ext |-> ".parquet" ] }
                 /\ mine \subseteq written[run]
                 /\ \A p \in mine : files[p].run = run /\ files[p].complete

\* C6 witness: a second run has persisted its reports under a later timestamp
C6_Witness ==
    /\ PersistDone
    /\ run = 2
    /\ timestamp > 0
    /\ Cardinality(DOMAIN files) = 4 * NumReports

(***************************************************************************)
(* Properties of process_sales_metrics (AggSpec)                           *)
(***************************************************************************)
\* the group-by column of every report with a single key
KeyColumn ==
    [ daily_sales |-> "Order_Date",
      category_performance |-> "Product_Category",
      regional_analysis |-> "Customer_Region",
      payment_analysis |-> "Payment_Method",
      status_analysis |-> "Order_Status",
      shipping_analysis |-> "Shipping_Method" ]

\* reference computations over the input file, row by row
RowsWith(col, v) == { i \in DOMAIN df : df[i][col] = v }

\* the exact decimal sum of a column over rows of the file, in hundredths
RECURSIVE RefSum(_, _)
RefSum(S, col) ==
    IF S = {} THEN 0
    ELSE LET i == CHOOSE x \in S : TRUE
         IN  source.rows[i][col] + RefSum(S \ {i}, col)

\* C7: the result holds exactly the seven named reports, and every report but
\* top_products has exactly one row for each value of its key in the table.
C7_SevenReportsOneRowPerGroup ==
    pc = "agg_done" =>
        /\ DOMAIN reports = DOMAIN collected
        /\ DOMAIN collected =
             { "daily_sales", "category_performance", "regional_analysis",
               "payment_analysis", "top_products", "status_analysis",
               "shipping_analysis" }
        /\ \A n \in DOMAIN KeyColumn :
             LET rep == collected[n]
                 col == KeyColumn[n]
             IN  /\ { rep[i][col] : i \in DOMAIN rep }
                       = { df[i][col] : i \in DOMAIN df }
                 /\ \A i, j \in DOMAIN rep : rep[i][col] = rep[j][col] => i = j

\* C7 witness: two rows of one date in two categories, the first not completed
C7_Witness ==
    /\ pc = "agg_done"
    /\ Len(df) = 2
    /\ Len(collected.daily_sales) = 1
    /\ Len(collected.category_performance) = 2
    /\ df[1].Order_Status # "Completed"

\* C8: every row of category_performance carries the sum of Final_Price, the
\* sum of Profit and the number of rows of exactly the input rows of its
\* category, as a reference computation over the file gives them (the
\* decimal amounts added, as 10 + 20 + 30 = 60).
C8_CategoryAggregates ==
    pc = "agg_done" =>
        \A i \in DOMAIN collected.category_performance :
            LET row == collected.category_performance[i]
                S == RowsWith("Product_Category", row.Product_Category)
            IN  /\ row.category_sales = ParseDouble(RefSum(S, "Final_Price"))
                /\ row.category_profit = ParseDouble(RefSum(S, "Profit"))
                /\ row.orders_count = Cardinality(S)

\* C9: for every date, daily_customers is the number of distinct Customer_ID
\* values and daily_orders the number of distinct Order_ID values among the
\* rows of that date (a row whose Order_ID is NULL holds no value).
C9_DailyDistinctCounts ==
    pc = "agg_done" =>
        \A i \in DOMAIN collected.daily_sales :
            LET row == collected.daily_sales[i]
                S == RowsWith("Order_Date", row.Order_Date)
            IN  /\ row.daily_customers
                     = Cardinality({ df[j].Customer_ID : j \in S })
                /\ row.daily_orders
                     = Cardinality({ df[j].Order_ID :
                                       j \in { k \in S : "Order_ID" \in DOMAIN df[k] } })

\* C9 witness: one customer in five orders with five order ids on one date
C9_Witness ==
    /\ pc = "agg_done"
    /\ Len(df) = 5
    /\ \A i \in 1..5 : df[i].Order_Date = df[1].Order_Date
                       /\ df[i].Customer_ID = df[1].Customer_ID
    /\ Len(collected.daily_sales) = 1
    /\ collected.daily_sales[1].daily_customers = 1
    /\ collected.daily_sales[1].daily_orders = 5

\* C10: category_performance is non-increasing in category_sales; top_products
\* has at most 100 rows and is non-increasing in total_sales.
C10_SortedAndLimited ==
    pc = "agg_done" =>
        /\ \A i, j \in DOMAIN collected.category_performance :
             i < j => ~DLess(collected.category_performance[i].category_sales,
                             collected.category_performance[j].category_sales)
        /\ Len(collected.top_products) <= 100
        /\ \A i, j \in DOMAIN collected.top_products :
             i < j => ~DLess(collected.top_products[i].total_sales,
                             collected.top_products[j].total_sales)

\* C10 witness: a table of more than 100 products with different sales, of
\* which 100 are kept, and several categories with different sales
C10_Witness ==
    /\ pc = "agg_done"
    /\ Cardinality({ << df[i].Product_ID, df[i].Product_Name >> : i \in DOMAIN df }) > 100
    /\ Len(collected.top_products) = 100
    /\ DLess(collected.top_products[100].total_sales,
             collected.top_products[1].total_sales)
    /\ Len(collected.category_performance) > 1
    /\ DLess(collected.category_performance[Len(collected.category_performance)]
                .category_sales,
             collected.category_performance[1].category_sales)


\* C11: for every input table, the total_sales of generate_summary_metrics
\* equals the sum of category_sales over the rows of category_performance
\* computed from the same table.
C11_SummaryTotalIsCategoryTotal ==
    pc = "agg_summed" =>
        summary[1].total_sales
            = << FSum(collected.category_performance, "category_sales") >>

\* how often the row r occurs in the sequence of rows
Occurrences(rows, r) == Cardinality({ i \in DOMAIN rows : rows[i] = r })

\* C12: repartition by Order_Date into 8 partitions keeps the table's row
\* count and its multiset of rows, for every input table and the table
\* without rows too: each input row is in exactly one partition, no row is
\* added or altered, and rows of one Order_Date share a partition.  It is
\* checked on the partitions of every job that has executed a plan.
C12_RepartitionKeepsRows ==
    (pc \in { "agg_execute", "agg_done" } /\ idx > 1) =>
        LET all == Collect(repartitioned)
        IN  /\ Len(repartitioned) = NumPartitions
            /\ Len(all) = Len(df)
            /\ \A i \in DOMAIN df :
                 Occurrences(all, df[i]) = Occurrences(df, df[i])
            /\ \A p, q \in DOMAIN repartitioned :
                 p # q =>
                   { repartitioned[p][i].Order_Date : i \in DOMAIN repartitioned[p] }
                     \cap
                   { repartitioned[q][i].Order_Date : i \in DOMAIN repartitioned[q] }
                     = {}

\* a table of three rows over two dates: two partitions hold rows, one of
\* them two rows
C12_Witness ==
    /\ pc = "agg_done"
    /\ Len(df) = 3
    /\ \E p, q \in DOMAIN repartitioned :
         /\ p # q
         /\ Len(repartitioned[p]) = 2
         /\ Len(repartitioned[q]) = 1

\* the rows of a report, their order put aside
RowSet(rows) == { rows[i] : i \in DOMAIN rows }

\* rows of the two reports that stand for the same group carry the same values
SameAggregates(a, b, keycols) ==
    \A i \in DOMAIN a, j \in DOMAIN b :
        (\A c \in keycols : a[i][c] = b[j][c]) => a[i] = b[j]

\* the sum of the column over the rows of the category in the partitions
\* 1..n, one partial sum per partition, merged partition after partition
RECURSIVE MergePartials(_, _, _, _)
MergePartials(parts, n, cat, col) ==
    IF n = 0 THEN DZero
    ELSE DAdd(MergePartials(parts, n - 1, cat, col),
              FSum(SelectSeq(parts[n], LAMBDA r : r.Product_Category = cat), col))

\* C13: the aggregate values of every report row are the same whatever the
\* assignment of rows to partitions, the number of partitions and the order
\* in which the reports and the partial aggregates are computed, and no
\* report depends on another: each report computed over the 8 partitions
\* (for each placement of the dates and each order of equal sort keys) has
\* the rows of that report computed alone over the table as one partition
\* in input order, and the partial sums of the partitions merge to its sums.
C13_AggregatesIndependentOfPartitioning ==
    pc = "agg_done" =>
        /\ RowSet(collected.daily_sales) = RowSet(Compute("daily_sales", df, "keep"))
        /\ RowSet(collected.category_performance)
             = RowSet(Compute("category_performance", df, "keep"))
        /\ RowSet(collected.regional_analysis)
             = RowSet(Compute("regional_analysis", df, "keep"))
        /\ RowSet(collected.payment_analysis)
             = RowSet(Compute("payment_analysis", df, "keep"))
        /\ RowSet(collected.status_analysis)
             = RowSet(Compute("status_analysis", df, "keep"))
        /\ RowSet(collected.shipping_analysis)
             = RowSet(Compute("shipping_analysis", df, "keep"))
        /\ LET alone == Compute("top_products", df, "keep")
           IN  /\ Len(collected.top_products) = Len(alone)
               /\ SameAggregates(collected.top_products, alone,
                                 { "Product_ID", "Product_Name" })
        /\ \A i \in DOMAIN collected.category_performance :
             LET r == collected.category_performance[i]
             IN  /\ r.category_sales
                      = MergePartials(repartitioned, NumPartitions,
                                      r.Product_Category, "Final_Price")
                 /\ r.category_profit
                      = MergePartials(repartitioned, NumPartitions,
                                      r.Product_Category, "Profit")

\* C14: constructing the engine over a configuration that lacks one of the
\* keys data_paths.raw, processed, curated, reports fails in the constructor,
\* before any data is read and before any output is written: such an
\* instance never gets past its constructor.
C14_MissingKeyFailsAtConstruction ==
    (config.readable /\ config.keys # ConfigKeys) =>
        /\ pc \in { "start", "ctor_raised" }
        /\ df = << >>
        /\ files = << >>

\* the reports with a count column that are not row-limited: report, group
\* key, count column
CountReports ==
    { << "category_performance", "Product_Category", "orders_count" >>,
      << "payment_analysis", "Payment_Method", "transaction_count" >>,
      << "status_analysis", "Order_Status", "order_count" >>,
      << "shipping_analysis", "Shipping_Method", "shipment_count" >> }

\* the total of a count column of a report
RECURSIVE CountTotal(_, _, _)
CountTotal(rep, col, n) ==
    IF n = 0 THEN 0 ELSE rep[n][col] + CountTotal(rep, col, n - 1)

\* C15: in every report with a count column the count of a group is the
\* number of input rows of that group, so for every input table the counts
\* of a report that is not row-limited sum to the number of rows of the
\* table; in top_products too the count of a listed group is the number of
\* its rows.
C15_CountsAreRowCounts ==
    pc = "agg_done" =>
        /\ \A t \in CountReports :
             LET rep == collected[t[1]]
             IN  /\ \A i \in DOMAIN rep :
                      rep[i][t[3]] = Cardinality(RowsWith(t[2], rep[i][t[2]]))
                 /\ CountTotal(rep, t[3], Len(rep)) = Len(df)
        /\ \A i \in DOMAIN collected.top_products :
             LET r == collected.top_products[i]
             IN  r.order_count
                   = Cardinality({ j \in DOMAIN df :
                                     /\ df[j].Product_ID = r.Product_ID
                                     /\ df[j].Product_Name = r.Product_Name })

\* C16: DataProcessor.process_data is a placeholder that returns its input:
\* for every input table the call returns that table (never None), raises
\* no error and changes neither the table nor the processor's configuration.
C16_ProcessDataReturnsInput ==
    [][ (pc = "proc_input" /\ pc' # "proc_input") =>
          /\ pc' = "proc_returned"
          /\ result' = << df >>
          /\ df' = df
          /\ processor'.config = processor.config
          /\ raising' = FALSE ]_vars

\* process_data has returned a table with rows to a processor built as in
\* the test, with an empty configuration
C16_Witness ==
    /\ pc = "proc_returned"
    /\ processor.config = {}
    /\ Len(df) > 0
    /\ result = << df >>

\* the positions of the log that hold a write that failed
FailedWrites ==
    { i \in WriteEvents : i + 1 \in DOMAIN log /\ log[i + 1].ev = "failed" }

\* the path is on disk as this run wrote it
KeptFromThisRun(path) ==
    /\ path \in written[run]
    /\ path \in DOMAIN files
    /\ files[path].run = run
    /\ files[path].complete

\* the run has left no committed artifact at the path
NothingFromThisRun(path) ==
    /\ path \notin written[run]
    /\ path \in DOMAIN files => files[path].run # run \/ ~files[path].complete

\* C17: once a write of save_reports has failed at the k-th report, and for
\* the rest of the run, both artifacts of every earlier report are on disk
\* as written, nothing of a later report has been written, and nothing of
\* the failed report is cleaned up: if its parquet write failed after its
\* csv write, the csv artifact stays without a parquet artifact of this run
\* (the parquet path is missing, holds what an earlier run left, or holds the
\* uncommitted output of the failed job).
C17_FailedPersistLeavesPartialOutput ==
    \A i \in FailedWrites :
        /\ log[i].report = ReportNames[idx]
        /\ \A j \in 1..(idx - 1) :
             /\ KeptFromThisRun(CsvPath(ReportNames[j], timestamp))
             /\ KeptFromThisRun(ParquetPath(ReportNames[j], timestamp))
        /\ \A p \in written[run] :
             \E j \in 1..idx : p.name = ReportNames[j]
        /\ \A j \in (idx + 1)..NumReports :
             \A p \in { CsvPath(ReportNames[j], timestamp),
                         ParquetPath(ReportNames[j], timestamp) } :
               p \in DOMAIN files => files[p].run # run
        /\ NothingFromThisRun(ParquetPath(ReportNames[idx], timestamp))
        /\ IF log[i].ev = "write_parquet"
           THEN KeptFromThisRun(CsvPath(ReportNames[idx], timestamp))
           ELSE NothingFromThisRun(CsvPath(ReportNames[idx], timestamp))

\* the parquet write of the second report failed in its job and the
\* exception has left run_analytics: three artifacts of the run are on disk,
\* and the uncommitted output of the job
C17_Witness ==
    /\ pc = "raised"
    /\ idx = 2
    /\ \E i \in FailedWrites : log[i].ev = "write_parquet"
    /\ Cardinality(written[run]) = 3
    /\ KeptFromThisRun(CsvPath(ReportNames[2], timestamp))
    /\ ParquetPath(ReportNames[2], timestamp) \in DOMAIN files
    /\ ~files[ParquetPath(ReportNames[2], timestamp)].complete

\* the distinct (Product_ID, Product_Name) pairs of the table
ProductGroups == { << df[i].Product_ID, df[i].Product_Name >> : i \in DOMAIN df }

\* the exact Final_Price total of the rows of a (Product_ID, Product_Name)
\* pair, in hundredths
GroupSales(k) ==
    RefSum({ i \in DOMAIN df : << df[i].Product_ID, df[i].Product_Name >> = k },
           "Final_Price")

\* C18: top_products has exactly min(100, G) rows, G the number of distinct
\* (Product_ID, Product_Name) pairs of the table, one row per listed pair,
\* and no pair left out sells more than a listed one; a Product_ID with two
\* names makes two groups.
C18_TopProductsAreTheBestSellers ==
    pc = "agg_done" =>
        LET top == collected.top_products
            listed == { << top[i].Product_ID, top[i].Product_Name >> :
                          i \in DOMAIN top }
            G == Cardinality(ProductGroups)
            sales == [ k \in ProductGroups |-> GroupSales(k) ]
        IN  /\ Len(top) = IF G < 100 THEN G ELSE 100
            /\ listed \subseteq ProductGroups
            /\ Cardinality(listed) = Len(top)
            /\ \A out \in ProductGroups \ listed, kept \in listed :
                 sales[out] <= sales[kept]
            /\ \A i, j \in DOMAIN df :
                 (df[i].Product_ID = df[j].Product_ID
                    /\ df[i].Product_Name # df[j].Product_Name)
                 => (G <= 100 =>
                       { << df[i].Product_ID, df[i].Product_Name >>,
                         << df[j].Product_ID, df[j].Product_Name >> }
                         \subseteq listed)

\* more than 100 products: a product is left out, and it sold less than
\* every product listed
C18_Witness ==
    /\ pc = "agg_done"
    /\ Cardinality(ProductGroups) > 100
    /\ Len(collected.top_products) = 100
    /\ \E out \in ProductGroups :
         /\ \A i \in DOMAIN collected.top_products :
              /\ out # << collected.top_products[i].Product_ID,
                          collected.top_products[i].Product_Name >>
              /\ GroupSales(out)
                   < GroupSales(<< collected.top_products[i].Product_ID,
                                   collected.top_products[i].Product_Name >>)

==============================================================================
